---- MODULE Spec2Model ----
(***************************************************************************)
(* A model of the AEO audit agent's content analyzer (src/analyzer.py), of *)
(* the query-generation provider it calls (src/query_generator.py), of the *)
(* citation checker (src/perplexity_checker.py) and of the recommendation  *)
(* provider (src/recommender.py).                                          *)
(*                                                                         *)
(* Strings are TLA+ strings, which TLC treats as sequences of characters   *)
(* (Len, SubSeq and \o apply to them).  A TLA+ string holds ASCII only, so *)
(* the non-ASCII characters the source names are written with ASCII        *)
(* stand-ins that occur nowhere else in the model's texts: EnDash, EmDash, *)
(* Bullet and Arrow.                                                       *)
(***************************************************************************)
EXTENDS Integers, Sequences, FiniteSets, TLC

VARIABLES
    pc,          \* position of the operation under way
    arg,         \* the inputs of the operation (a record)
    ret,         \* the value the operation returned (None until it returns)
    loc,         \* analyze_url's local variables (a record)
    calls,       \* the collaborators and components invoked so far, in order
    net          \* what the network did at each outbound call so far

vars == <<pc, arg, ret, loc, calls, net>>

None == "<None>"

----------------------------------------------------------------------------
(* Text primitives: the str methods and the re patterns the source uses.   *)

EnDash == "~"
EmDash == "^"
Bullet == "@"

Char(s, i) == SubSeq(s, i, i)

\* str.isspace() for one character of the model's alphabet
IsSpace(c) == c \in {" ", "\t", "\n", "\r", "\f"}

UpperCase == "ABCDEFGHIJKLMNOPQRSTUVWXYZ"
LowerCase == "abcdefghijklmnopqrstuvwxyz"
Digits == "0123456789"

DigitChars == {Char(Digits, i) : i \in 1..10}

IsDigit(c) == c \in DigitChars

\* the characters the pattern \w matches (so \b is a change of IsWordChar)
WordChars ==
    {Char(UpperCase, i) : i \in 1..26} \cup {Char(LowerCase, i) : i \in 1..26}
        \cup DigitChars \cup {"_"}

IsWordChar(c) == c \in WordChars

\* the lower-case letter of each upper-case letter
LowerOf == [c \in {Char(UpperCase, i) : i \in 1..26} |->
               Char(LowerCase, CHOOSE i \in 1..26 : Char(UpperCase, i) = c)]

LowerChar(c) == IF c \in DOMAIN LowerOf THEN LowerOf[c] ELSE c

RECURSIVE lower(_)
\* str.lower()
lower(s) ==
    IF Len(s) = 0 THEN ""
    ELSE IF Len(s) = 1 THEN LowerChar(s)
    ELSE LET h == Len(s) \div 2
         IN  lower(SubSeq(s, 1, h)) \o lower(SubSeq(s, h + 1, Len(s)))

\* str.startswith(prefix)
startswith(s, prefix) ==
    Len(s) >= Len(prefix) /\ SubSeq(s, 1, Len(prefix)) = prefix

\* str.endswith(suffix)
endswith(s, suffix) ==
    Len(s) >= Len(suffix) /\ SubSeq(s, Len(s) - Len(suffix) + 1, Len(s)) = suffix

\* sub in s
contains(sub, s) ==
    \E i \in 0..(Len(s) - Len(sub)) : SubSeq(s, i + 1, i + Len(sub)) = sub

\* str.strip(): leading and trailing whitespace removed
strip(s) ==
    LET keep == {i \in 1..Len(s) : ~IsSpace(Char(s, i))}
    IN  IF keep = {} THEN ""
        ELSE SubSeq(s, CHOOSE i \in keep : \A j \in keep : i <= j,
                       CHOOSE i \in keep : \A j \in keep : j <= i)

\* the end of the whitespace-delimited token that starts at i
TokenEnd(s, i) ==
    CHOOSE j \in i..Len(s) :
        /\ j = Len(s) \/ IsSpace(Char(s, j + 1))
        /\ \A k \in i..(j - 1) : ~IsSpace(Char(s, k + 1))

\* a whitespace-delimited token starts at position i
IsTokenStart(s, i) == ~IsSpace(Char(s, i)) /\ (i = 1 \/ IsSpace(Char(s, i - 1)))

RECURSIVE SortedSeq(_)
\* the elements of a finite set of integers in increasing order
SortedSeq(S) ==
    IF S = {} THEN <<>>
    ELSE LET m == CHOOSE x \in S : \A y \in S : x <= y
         IN  <<m>> \o SortedSeq(S \ {m})

RECURSIVE TokensIn(_, _, _)
\* the whitespace-delimited tokens of s that start at a position of lo..hi,
\* in order
TokensIn(s, lo, hi) ==
    IF lo > hi THEN <<>>
    ELSE IF lo = hi
    THEN IF IsTokenStart(s, lo)
         THEN <<SubSeq(s, lo, TokenEnd(s, lo))>>
         ELSE <<>>
    ELSE LET mid == (lo + hi) \div 2
         IN  TokensIn(s, lo, mid) \o TokensIn(s, mid + 1, hi)

\* str.split(): the tokens between runs of whitespace, none of them empty
split(s) == TokensIn(s, 1, Len(s))

RECURSIVE join(_, _)
\* sep.join(words)
join(sep, words) ==
    IF Len(words) = 0 THEN ""
    ELSE IF Len(words) = 1 THEN words[1]
    ELSE LET h == Len(words) \div 2
         IN  join(sep, SubSeq(words, 1, h)) \o sep
                 \o join(sep, SubSeq(words, h + 1, Len(words)))

\* re.search(r"\b" + word + r"\b", s) for a word that starts and ends with \w
SearchWord(word, s) ==
    \E i \in 0..(Len(s) - Len(word)) :
        /\ SubSeq(s, i + 1, i + Len(word)) = word
        /\ (i = 0 \/ ~IsWordChar(Char(s, i)))
        /\ (i + Len(word) = Len(s) \/ ~IsWordChar(Char(s, i + Len(word) + 1)))

\* re.search(r"\d+", s)
SearchDigits(s) == \E i \in 1..Len(s) : IsDigit(Char(s, i))

----------------------------------------------------------------------------
(* Metrics calculator.                                                      *)

\* count_words with text.split(" "): every single space separates two pieces
count_words_SplitOnSpace(text) ==
    Cardinality({i \in 1..Len(text) : Char(text, i) = " "}) + 1

\* count_words (analyzer.py 105-108)
count_words(text) == Len(split(text))

\* words[:n]
FirstN(words, n) == SubSeq(words, 1, IF n < Len(words) THEN n ELSE Len(words))

\* get_first_n_words with words[:n + 1]: one word too many
get_first_n_words_Inclusive(text, n) == join(" ", FirstN(split(text), n + 1))

\* get_first_n_words (analyzer.py 111-114)
get_first_n_words(text, n) == join(" ", FirstN(split(text), n))

----------------------------------------------------------------------------
(* Direct-answer scorer: check_direct_answer (analyzer.py 117-185).  Each   *)
(* check takes the running (score, reasons) and returns it updated.         *)

definitive_starts == <<"the ", "a ", "an ", "it ", "this ", "there ">>

defining_patterns ==
    <<"is", "are", "means", "refers to", "defined as", "known as", "called">>

weak_starts ==
    <<"in this article", "in this post", "welcome to", "today we", "let's",
      "click here", "subscribe">>

promo_words ==
    <<"buy", "purchase", "discount", "sale", "offer", "deal", "subscribe">>

Range(f) == {f[i] : i \in DOMAIN f}

\* analyzer.py 132: the word counts of a good length
GoodLengthMin == 20
GoodLengthMax == 100

\* Check 1 (analyzer.py 130-139): the length of the paragraph in words
CheckLength(p, acc) ==
    LET word_count == count_words(p)
    IN  IF GoodLengthMin <= word_count /\ word_count <= GoodLengthMax
        THEN [score |-> acc.score + 25,
              reasons |-> Append(acc.reasons,
                  "Good length (" \o ToString(word_count)
                      \o " words) - concise but informative")]
        ELSE IF word_count < GoodLengthMin
        THEN [score |-> acc.score,
              reasons |-> Append(acc.reasons,
                  "Too short (" \o ToString(word_count)
                      \o " words) - may lack detail")]
        ELSE [score |-> acc.score + 10,
              reasons |-> Append(acc.reasons,
                  "Long first paragraph (" \o ToString(word_count)
                      \o " words) - consider being more concise")]

\* CheckDefinitive with the bonus given whatever the paragraph ends with
CheckDefinitive_AnyEnding(p, first_paragraph_lower, acc) ==
    IF \E w \in Range(definitive_starts) : startswith(first_paragraph_lower, w)
    THEN [score |-> acc.score + 20,
          reasons |-> Append(acc.reasons, "Starts with a definitive statement")]
    ELSE IF endswith(strip(p), "?")
    THEN [score |-> acc.score,
          reasons |-> Append(acc.reasons,
              "First paragraph is a question, not an answer")]
    ELSE acc

\* Check 2 (analyzer.py 141-149): a definitive statement, not a question
CheckDefinitive(p, first_paragraph_lower, acc) ==
    IF ~endswith(strip(p), "?")
    THEN IF \E w \in Range(definitive_starts) : startswith(first_paragraph_lower, w)
         THEN [score |-> acc.score + 20,
               reasons |-> Append(acc.reasons,
                   "Starts with a definitive statement")]
         ELSE acc
    ELSE [score |-> acc.score,
          reasons |-> Append(acc.reasons,
              "First paragraph is a question, not an answer")]

\* Check 3 (analyzer.py 151-158): defining language
CheckDefining(first_paragraph_lower, acc) ==
    IF \E w \in Range(defining_patterns) : SearchWord(w, first_paragraph_lower)
    THEN [score |-> acc.score + 20,
          reasons |-> Append(acc.reasons,
              "Contains defining language (is, are, means, etc.)")]
    ELSE acc

\* Check 4 (analyzer.py 160-167): no weak opening phrase
CheckWeakStart(first_paragraph_lower, acc) ==
    IF ~\E w \in Range(weak_starts) : startswith(first_paragraph_lower, w)
    THEN [score |-> acc.score + 15,
          reasons |-> Append(acc.reasons,
              "Doesn't start with weak/promotional phrases")]
    ELSE [score |-> acc.score,
          reasons |-> Append(acc.reasons,
              "Starts with weak/promotional phrase - get to the answer faster")]

\* Check 5 (analyzer.py 169-172): numbers
CheckDigits(p, acc) ==
    IF SearchDigits(p)
    THEN [score |-> acc.score + 10,
          reasons |-> Append(acc.reasons, "Contains specific numbers/data")]
    ELSE acc

\* Check 6 (analyzer.py 174-181): promotional words
CheckPromo(first_paragraph_lower, acc) ==
    LET promo_count ==
            Cardinality({i \in DOMAIN promo_words :
                            contains(promo_words[i], first_paragraph_lower)})
    IN  IF promo_count = 0
        THEN [score |-> acc.score + 10,
              reasons |-> Append(acc.reasons,
                  "Not promotional - focused on information")]
        ELSE [score |-> acc.score,
              reasons |-> Append(acc.reasons, "Contains promotional language")]

Min(a, b) == IF a <= b THEN a ELSE b

\* RunChecks with the digit check and the promotional check in the other order
RunChecks_Reordered(p) ==
    LET first_paragraph_lower == lower(p)
        c1 == CheckLength(p, [score |-> 0, reasons |-> <<>>])
        c2 == CheckDefinitive(p, first_paragraph_lower, c1)
        c3 == CheckDefining(first_paragraph_lower, c2)
        c4 == CheckWeakStart(first_paragraph_lower, c3)
        c5 == CheckPromo(first_paragraph_lower, c4)
    IN  CheckDigits(p, c5)

\* the six checks in the order the code applies them (analyzer.py 127-181)
RunChecks(p) ==
    LET first_paragraph_lower == lower(p)
        c1 == CheckLength(p, [score |-> 0, reasons |-> <<>>])
        c2 == CheckDefinitive(p, first_paragraph_lower, c1)
        c3 == CheckDefining(first_paragraph_lower, c2)
        c4 == CheckWeakStart(first_paragraph_lower, c3)
        c5 == CheckDigits(p, c4)
    IN  CheckPromo(first_paragraph_lower, c5)

\* check_direct_answer with the verdict given above 50 only
check_direct_answer_Above50(first_paragraph) ==
    IF first_paragraph = ""
    THEN [is_direct_answer |-> FALSE, score |-> 0,
          reasons |-> <<"No first paragraph found">>]
    ELSE LET acc == RunChecks(first_paragraph)
         IN  [is_direct_answer |-> acc.score > 50,
              score |-> Min(acc.score, 100),
              reasons |-> acc.reasons]

\* check_direct_answer without the early return of analyzer.py 124-125
check_direct_answer_NoEarlyReturn(first_paragraph) ==
    LET acc == RunChecks(first_paragraph)
    IN  [is_direct_answer |-> acc.score >= 50,
         score |-> Min(acc.score, 100),
         reasons |-> acc.reasons]

\* check_direct_answer (analyzer.py 117-185)
check_direct_answer(first_paragraph) ==
    IF first_paragraph = ""
    THEN [is_direct_answer |-> FALSE, score |-> 0,
          reasons |-> <<"No first paragraph found">>]
    ELSE LET acc == RunChecks(first_paragraph)
         IN  [is_direct_answer |-> acc.score >= 50,
              score |-> Min(acc.score, 100),
              reasons |-> acc.reasons]

----------------------------------------------------------------------------
(* Rule-based query synthesizer: generate_queries_rule_based               *)
(* (analyzer.py 188-254).                                                  *)

\* the characters of the class [|\-<en dash><em dash>] (analyzer.py 200)
Separators == {"|", "-", EnDash, EmDash}

\* re.split(r'\s*[|\-..]\s*', title)[0]: the text before the leftmost match
\* of "whitespace run, then a separator"; the whole title without a match
FirstPiece(title) ==
    LET matches == {i \in 1..Len(title) :
                       \E j \in i..Len(title) :
                           /\ Char(title, j) \in Separators
                           /\ \A k \in i..(j - 1) : IsSpace(Char(title, k))}
    IN  IF matches = {} THEN title
        ELSE SubSeq(title, 1, (CHOOSE i \in matches : \A k \in matches : i <= k) - 1)

\* analyzer.py 200
CleanTitle(title) == strip(FirstPiece(title))

title_prefixes ==
    <<"how to ", "guide to ", "the complete ", "the ultimate ", "a guide to ",
      "understanding ", "learn about ">>

\* analyzer.py 207-214: the first listed prefix the title starts with is cut
RemovePrefix(title_lower) ==
    LET hits == {i \in DOMAIN title_prefixes : startswith(title_lower, title_prefixes[i])}
    IN  IF hits = {} THEN title_lower
        ELSE LET first == CHOOSE i \in hits : \A k \in hits : i <= k
             IN  SubSeq(title_lower, Len(title_prefixes[first]) + 1, Len(title_lower))

\* any(word in text.lower() for word in words)
MentionsAny(text, words) ==
    LET text_lower == lower(text)
    IN  \E i \in DOMAIN words : contains(words[i], text_lower)

\* Query 1 (analyzer.py 216-218)
Query1(queries, title_lower) ==
    IF title_lower # ""
    THEN Append(queries, "What is " \o title_lower \o "?")
    ELSE queries

\* Query2 with the prefix-free lower-case title where the code uses clean_title
Query2_TitleLower(queries, title, clean_title, title_lower, first_paragraph) ==
    IF contains("how to", lower(title))
    THEN Append(queries, title_lower \o "?")
    ELSE IF first_paragraph # ""
    THEN IF MentionsAny(first_paragraph, <<"process", "method", "step", "way", "approach">>)
         THEN Append(queries, "How does " \o title_lower \o " work?")
         ELSE Append(queries, "How to use " \o title_lower \o "?")
    ELSE Append(queries, "How does " \o title_lower \o " work?")

\* Query 2 (analyzer.py 220-234)
Query2(queries, title, clean_title, title_lower, first_paragraph) ==
    IF contains("how to", lower(title))
    THEN Append(queries, clean_title \o "?")
    ELSE IF first_paragraph # ""
    THEN IF MentionsAny(first_paragraph, <<"process", "method", "step", "way", "approach">>)
         THEN Append(queries, "How does " \o title_lower \o " work?")
         ELSE Append(queries, "How to use " \o title_lower \o "?")
    ELSE Append(queries, "How does " \o title_lower \o " work?")

\* Query 3 (analyzer.py 236-248)
Query3(queries, title_lower, first_paragraph) ==
    IF first_paragraph # ""
    THEN IF MentionsAny(first_paragraph,
                <<"important", "benefit", "advantage", "help", "improve">>)
         THEN Append(queries, "Why is " \o title_lower \o " important?")
         ELSE IF MentionsAny(first_paragraph,
                     <<"best", "top", "compare", "vs", "versus", "difference">>)
         THEN Append(queries, "What is the best " \o title_lower \o "?")
         ELSE Append(queries, "Why use " \o title_lower \o "?")
    ELSE Append(queries, "Why is " \o title_lower \o " important?")

\* PadQueries without the loop of analyzer.py 251-252
PadQueries_NoLoop(queries, title_lower) == queries

RECURSIVE PadQueries(_, _)
\* analyzer.py 250-252: while len(queries) < 3
PadQueries(queries, title_lower) ==
    IF Len(queries) < 3
    THEN PadQueries(Append(queries, "What are the benefits of " \o title_lower \o "?"),
                    title_lower)
    ELSE queries

\* generate_queries_rule_based (analyzer.py 188-254)
generate_queries_rule_based(title, first_paragraph) ==
    LET clean_title == CleanTitle(title)
        title_lower == RemovePrefix(lower(clean_title))
    IN  IF clean_title = "" /\ first_paragraph = ""
        THEN <<"What is this topic?", "How does this work?", "Why is this important?">>
        ELSE FirstN(PadQueries(
                 Query3(Query2(Query1(<<>>, title_lower),
                               title, clean_title, title_lower, first_paragraph),
                        title_lower, first_paragraph),
                 title_lower), 3)

----------------------------------------------------------------------------
(* Content extractor: extract_text_content (analyzer.py 61-102).           *)
(*                                                                         *)
(* The markup is modelled as the tree the parser builds from it: a         *)
(* document has an optional title element, an optional body, and under the *)
(* body a sequence of sections (elements with a tag, a class, an id and a  *)
(* role), each holding a sequence of blocks (leaf elements with a tag and  *)
(* one text node).                                                         *)

\* analyzer.py 71-72: the elements decomposed before extraction
StrippedTags ==
    {"script", "style", "nav", "footer", "header", "aside", "noscript", "iframe", "svg"}

\* analyzer.py 92: the elements that are candidate paragraphs
ParagraphTags == {"p", "h1", "h2", "h3", "li"}

\* analyzer.py 94: a candidate paragraph is longer than this
MinParagraphLen == 20

\* analyzer.py 71-73: decompose() every stripped element, with what it holds
Decompose(doc) ==
    LET keepSection(sec) == sec.tag \notin StrippedTags
        keepBlock(b) == b.tag \notin StrippedTags
        kept == SelectSeq(doc.sections, keepSection)
    IN  [doc EXCEPT !.sections =
            [i \in 1..Len(kept) |->
                [kept[i] EXCEPT !.blocks = SelectSeq(kept[i].blocks, keepBlock)]]]

\* re.compile(r"content|article|post", re.I) searched in a class value
ClassMatches(class) ==
    \E w \in {"content", "article", "post"} : contains(w, lower(class))

\* the indices of the sections with a tag
SectionsTagged(doc, tag) == {i \in 1..Len(doc.sections) : doc.sections[i].tag = tag}

\* the least index of a set of section indices
FirstOf(hits) == CHOOSE i \in hits : \A k \in hits : i <= k

\* a main content area: one section, the body, or the whole document
Area(kind, index) == [kind |-> kind, index |-> index]

\* analyzer.py 81-88: the main content area
MainContent(doc) ==
    LET mains == SectionsTagged(doc, "main")
        articles == SectionsTagged(doc, "article")
        roleMains == {i \in 1..Len(doc.sections) : doc.sections[i].role = "main"}
        contentDivs == {i \in SectionsTagged(doc, "div") :
                           ClassMatches(doc.sections[i].class)}
    IN  IF mains # {} THEN Area("section", FirstOf(mains))
        ELSE IF articles # {} THEN Area("section", FirstOf(articles))
        ELSE IF roleMains # {} THEN Area("section", FirstOf(roleMains))
        ELSE IF contentDivs # {} THEN Area("section", FirstOf(contentDivs))
        ELSE IF doc.body THEN Area("body", 0)
        ELSE Area("soup", 0)

RECURSIVE Flatten(_)
\* the concatenation of a sequence of sequences
Flatten(seqs) ==
    IF Len(seqs) = 0 THEN <<>> ELSE Head(seqs) \o Flatten(Tail(seqs))

\* the blocks under the main content area, in document order
BlocksUnder(doc, root) ==
    IF root.kind = "section"
    THEN doc.sections[root.index].blocks
    ELSE Flatten([i \in 1..Len(doc.sections) |-> doc.sections[i].blocks])

\* the stripped, non-empty text nodes under the main content area: those of
\* its blocks and, when the area is the whole document, the title's text
StringsUnder(doc, root) ==
    LET nonEmpty(t) == t # ""
        blocks == BlocksUnder(doc, root)
        texts == [i \in 1..Len(blocks) |-> strip(blocks[i].text)]
        head == IF root.kind = "soup" /\ doc.title # None THEN <<strip(doc.title)>> ELSE <<>>
    IN  SelectSeq(head \o texts, nonEmpty)

RECURSIVE CollapseFrom(_, _, _)
\* re.sub(r"\s+", " ", s) over s[lo..hi]
CollapseFrom(s, lo, hi) ==
    IF lo > hi THEN ""
    ELSE IF lo = hi
    THEN IF ~IsSpace(Char(s, lo)) THEN Char(s, lo)
         ELSE IF lo = 1 \/ ~IsSpace(Char(s, lo - 1)) THEN " "
         ELSE ""
    ELSE LET mid == (lo + hi) \div 2
         IN  CollapseFrom(s, lo, mid) \o CollapseFrom(s, mid + 1, hi)

CollapseWhitespace(s) == CollapseFrom(s, 1, Len(s))

\* extract_text_content (analyzer.py 61-102)
extract_text_content(html) ==
    LET soup == Decompose(html)
        title == IF soup.title # None THEN strip(soup.title) ELSE ""
        main_content == MainContent(soup)
        blocks == BlocksUnder(soup, main_content)
        isParagraph(b) ==
            /\ b.tag \in ParagraphTags
            /\ strip(b.text) # ""
            /\ Len(strip(b.text)) > MinParagraphLen
        candidates == SelectSeq(blocks, isParagraph)
    IN  [full_text |-> CollapseWhitespace(join(" ", StringsUnder(soup, main_content))),
         title |-> title,
         paragraphs |-> [i \in 1..Len(candidates) |-> strip(candidates[i].text)]]

----------------------------------------------------------------------------
(* Fetch collaborator: fetch_page_content (analyzer.py 36-58).  What the   *)
(* network does is an outcome: the page that came back, or the exception   *)
(* requests raised.                                                        *)

\* analyzer.py 47-58: the (html, error) pair returned for an outcome
fetch_page_content(outcome) ==
    CASE outcome.kind = "ok" ->
            [html |-> outcome.html, error |-> None]
      [] outcome.kind = "Timeout" ->
            [html |-> "",
             error |-> "Request timed out. The page took too long to respond."]
      [] outcome.kind = "ConnectionError" ->
            [html |-> "",
             error |-> "Could not connect to the URL. Please check if it's valid."]
      [] outcome.kind = "HTTPError" ->
            [html |-> "", error |-> "HTTP error: " \o ToString(outcome.status_code)]
      [] outcome.kind = "RequestException" ->
            [html |-> "", error |-> "Error fetching page: " \o outcome.message]

----------------------------------------------------------------------------
(* Query-generation provider: generate_queries_with_llm                    *)
(* (query_generator.py 21-135).  What the provider does is an outcome: an  *)
(* exception of the HTTP call, a body that is not the expected shape, or   *)
(* the text of the completion.                                             *)

\* str.split("\n"): the pieces between line feeds, empty ones included
SplitLines(s) ==
    LET cuts == {i \in 1..Len(s) : Char(s, i) = "\n"}
        bounds == SortedSeq(cuts \cup {0, Len(s) + 1})
    IN  [k \in 1..(Len(bounds) - 1) |-> SubSeq(s, bounds[k] + 1, bounds[k + 1] - 1)]

\* query_generator.py 114: the characters lstrip removes
NumberingChars == {".", "-", ")", "*", Bullet, " "}

\* str.lstrip("0123456789.-)*<bullet> ")
LStripNumbering(q) ==
    LET keep == {i \in 1..Len(q) : ~(IsDigit(Char(q, i)) \/ Char(q, i) \in NumberingChars)}
    IN  IF keep = {} THEN ""
        ELSE SubSeq(q, CHOOSE i \in keep : \A j \in keep : i <= j, Len(q))

\* QueryGenerationResult (query_generator.py 13-18)
QueryGenerationResult(queries, is_ai_generated, error) ==
    [raised |-> FALSE, queries |-> queries, is_ai_generated |-> is_ai_generated,
     error |-> error]

\* an exception that leaves generate_queries_with_llm
Raised == [raised |-> TRUE]

\* query_generator.py 106-128: the completion's text parsed into queries
ParseContent(text) ==
    LET nonEmpty(q) == q # ""
        content == strip(text)
        lines == SplitLines(content)
        queries == SelectSeq([i \in 1..Len(lines) |-> strip(lines[i])], nonEmpty)
        cleaned_queries ==
            SelectSeq([i \in 1..Len(queries) |-> strip(LStripNumbering(queries[i]))],
                      nonEmpty)
    IN  IF Len(cleaned_queries) >= 3
        THEN QueryGenerationResult(FirstN(cleaned_queries, 3), TRUE, None)
        ELSE QueryGenerationResult(<<>>, FALSE, "LLM returned fewer than 3 queries")

\* generate_queries_with_llm (query_generator.py 71-135)
generate_queries_with_llm(outcome) ==
    CASE outcome.kind = "Timeout" ->
            QueryGenerationResult(<<>>, FALSE, "Request timed out")
      [] outcome.kind = "HTTPError" ->
            QueryGenerationResult(<<>>, FALSE,
                IF outcome.status_code = 401 THEN "Invalid API key"
                ELSE IF outcome.status_code = 429 THEN "Rate limit exceeded"
                ELSE "API error: " \o ToString(outcome.status_code))
      [] outcome.kind = "RequestException" ->
            QueryGenerationResult(<<>>, FALSE, "Request failed: " \o outcome.message)
      [] outcome.kind = "KeyError" ->
            QueryGenerationResult(<<>>, FALSE,
                "Failed to parse response: " \o outcome.message)
      [] outcome.kind = "OtherException" -> Raised
      [] outcome.kind = "content" -> ParseContent(outcome.content)

----------------------------------------------------------------------------
(* Citation checker: normalize_url (perplexity_checker.py 23-32), with     *)
(* urllib.parse.urlparse as it treats a url of the model's alphabet (no    *)
(* bracket and no character outside ASCII).                                *)

\* str.find(c): the first position of the character c in s, 0 when absent
FindChar(s, c) ==
    LET hits == {i \in 1..Len(s) : Char(s, i) = c}
    IN  IF hits = {} THEN 0 ELSE CHOOSE i \in hits : \A j \in hits : i <= j

\* str.rfind(c): the last position of the character c in s, 0 when absent
RFindChar(s, c) ==
    LET hits == {i \in 1..Len(s) : Char(s, i) = c}
    IN  IF hits = {} THEN 0 ELSE CHOOSE i \in hits : \A j \in hits : j <= i

\* str.find(sub): the first position where sub occurs in s, 0 when absent
Find(s, sub) ==
    LET hits == {i \in 1..(Len(s) - Len(sub) + 1) : SubSeq(s, i, i + Len(sub) - 1) = sub}
    IN  IF hits = {} THEN 0 ELSE CHOOSE i \in hits : \A j \in hits : i <= j

RECURSIVE Remove(_, _)
\* str.replace(sub, ""): every occurrence of sub removed, left to right
Remove(s, sub) ==
    LET i == Find(s, sub)
    IN  IF i = 0 THEN s
        ELSE SubSeq(s, 1, i - 1) \o Remove(SubSeq(s, i + Len(sub), Len(s)), sub)

\* str.rstrip(c): every trailing character c removed
RStripChar(s, c) ==
    LET keep == {i \in 1..Len(s) : Char(s, i) # c}
    IN  IF keep = {} THEN ""
        ELSE SubSeq(s, 1, CHOOSE i \in keep : \A j \in keep : j <= i)

\* urlsplit's first step: leading control characters and spaces stripped,
\* and tab, carriage return and line feed removed everywhere
CleanUrl(url) ==
    LET keep == {i \in 1..Len(url) : ~IsSpace(Char(url, i))}
        from == IF keep = {} THEN Len(url) + 1
                ELSE CHOOSE i \in keep : \A j \in keep : i <= j
    IN  Remove(Remove(Remove(SubSeq(url, from, Len(url)), "\t"), "\r"), "\n")

\* urllib.parse.scheme_chars
SchemeLetters == {Char(UpperCase, i) : i \in 1..26} \cup {Char(LowerCase, i) : i \in 1..26}

UrlSchemeChars == SchemeLetters \cup DigitChars \cup {"+", "-", "."}

\* urllib.parse.uses_params
uses_params ==
    {"", "ftp", "hdl", "prospero", "http", "imap", "https", "shttp", "rtsp",
     "rtspu", "sip", "sips", "mms", "sftp", "tel"}

\* the position of the colon that ends the scheme of url, 0 when url has none
SchemeEnd(url) ==
    LET i == FindChar(url, ":")
    IN  IF /\ i > 1
           /\ Char(url, 1) \in SchemeLetters
           /\ \A k \in 1..(i - 1) : Char(url, k) \in UrlSchemeChars
        THEN i ELSE 0

\* urllib.parse._splitnetloc(url, 2): the end of the network location that
\* follows the two slashes url starts with
NetlocEnd(url) ==
    LET stops == {i \in 3..Len(url) : Char(url, i) \in {"/", "?", "#"}}
    IN  IF stops = {} THEN Len(url)
        ELSE (CHOOSE i \in stops : \A j \in stops : i <= j) - 1

\* the part of s before its first character c (all of s when c is absent)
Before(s, c) ==
    IF FindChar(s, c) = 0 THEN s ELSE SubSeq(s, 1, FindChar(s, c) - 1)

\* the part of s after its first character c (empty when c is absent)
After(s, c) ==
    IF FindChar(s, c) = 0 THEN "" ELSE SubSeq(s, FindChar(s, c) + 1, Len(s))

\* urllib.parse._splitparams: where the parameters of the last path segment
\* start, 0 when it has none
ParamsStart(path) ==
    LET slash == RFindChar(path, "/")
        semis == {i \in (IF slash = 0 THEN 1 ELSE slash)..Len(path) : Char(path, i) = ";"}
    IN  IF semis = {} THEN 0 ELSE CHOOSE i \in semis : \A j \in semis : i <= j

\* the one element of a set of one element; Only({F(x) : x \in {e}}) is F(e)
\* with e evaluated once
Only(S) == CHOOSE x \in S : TRUE

\* urlsplit and urlparse after the clean-up: u cut at the colon that ends its
\* scheme (0 when it has none), then into network location, path,
\* parameters, query and fragment
SplitUrl(u, colon) ==
    LET rest == IF colon = 0 THEN u ELSE SubSeq(u, colon + 1, Len(u))
        hasNetloc == startswith(rest, "//")
        tail == IF hasNetloc THEN SubSeq(rest, NetlocEnd(rest) + 1, Len(rest)) ELSE rest
        scheme == IF colon = 0 THEN "" ELSE lower(SubSeq(u, 1, colon - 1))
        fullPath == Before(Before(tail, "#"), "?")
        semi == IF scheme \in uses_params THEN ParamsStart(fullPath) ELSE 0
    IN  [scheme |-> scheme,
         netloc |-> IF hasNetloc THEN SubSeq(rest, 3, NetlocEnd(rest)) ELSE "",
         path |-> IF semi = 0 THEN fullPath ELSE SubSeq(fullPath, 1, semi - 1),
         params |-> IF semi = 0 THEN "" ELSE SubSeq(fullPath, semi + 1, Len(fullPath)),
         query |-> After(Before(tail, "#"), "?"),
         fragment |-> After(tail, "#")]

\* urllib.parse.urlparse(url)
urlparse(url) == Only({SplitUrl(u, SchemeEnd(u)) : u \in {CleanUrl(url)}})

\* perplexity_checker.py 30-32: the domain without "www." and the path
\* without its trailing slashes, joined
DomainAndPath(parsed) == Remove(parsed.netloc, "www.") \o RStripChar(parsed.path, "/")

\* normalize_url (perplexity_checker.py 23-32)
normalize_url(url) == Only({DomainAndPath(parsed) : parsed \in {urlparse(lower(url))}})

----------------------------------------------------------------------------
(* The body of a provider's response as response.json() returns it: a JSON *)
(* value, tagged with its kind.  An expression that Python evaluates on it *)
(* gives a value or raises an exception; Val and Exc are the two results.  *)

JNull == [t |-> "null"]
JStr(s) == [t |-> "str", v |-> s]
JNum(n) == [t |-> "num", v |-> n]
JList(items) == [t |-> "list", v |-> items]
JDict(members) == [t |-> "dict", v |-> members]

\* the dict without a member
NoMembers == <<>>

Val(x) == [ok |-> TRUE, v |-> x]
Exc(name, message) == [ok |-> FALSE, exc |-> name, message |-> message]

\* x[key] for a string key
GetItem(x, key) ==
    IF ~x.ok THEN x
    ELSE IF x.v.t = "dict"
    THEN IF key \in DOMAIN x.v.v THEN Val(x.v.v[key])
         ELSE Exc("KeyError", "'" \o key \o "'")
    ELSE Exc("TypeError", "indices must be integers, or the object is not subscriptable")

\* x[0]
GetFirst(x) ==
    IF ~x.ok THEN x
    ELSE IF x.v.t = "dict" THEN Exc("KeyError", "0")
    ELSE IF x.v.t = "list"
    THEN IF Len(x.v.v) > 0 THEN Val(x.v.v[1])
         ELSE Exc("IndexError", "list index out of range")
    ELSE IF x.v.t = "str"
    THEN IF Len(x.v.v) > 0 THEN Val(JStr(Char(x.v.v, 1)))
         ELSE Exc("IndexError", "string index out of range")
    ELSE Exc("TypeError", "object is not subscriptable")

\* x.strip()
StripOf(x) ==
    IF ~x.ok THEN x
    ELSE IF x.v.t = "str" THEN Val(JStr(strip(x.v.v)))
    ELSE Exc("AttributeError", "object has no attribute 'strip'")

\* an exception that leaves the function that was called
Raises(exc) == [raised |-> TRUE, exc |-> exc]

----------------------------------------------------------------------------
(* Citation checker: check_citation, check_all_queries and                 *)
(* get_citation_summary (perplexity_checker.py 35-188).  What the provider *)
(* does at one call is an outcome: an exception of the HTTP call, or the   *)
(* JSON value of the response's body.                                      *)

\* bool(x) for a JSON value
Truthy(x) ==
    CASE x.t = "null" -> FALSE
      [] x.t = "str" -> x.v # ""
      [] x.t = "num" -> x.v # 0
      [] x.t = "list" -> Len(x.v) > 0
      [] x.t = "dict" -> DOMAIN x.v # {}

\* x.get(key, default)
DictGet(x, key, default) ==
    IF ~x.ok THEN x
    ELSE IF x.v.t = "dict"
    THEN IF key \in DOMAIN x.v.v THEN Val(x.v.v[key]) ELSE Val(default)
    ELSE Exc("AttributeError", "object has no attribute 'get'")

\* perplexity_checker.py 130: the answer is cut after this many characters
SnippetLimit == 300

\* CitationResult (perplexity_checker.py 13-20)
CitationResult(query, cited, citation_snippet, sources_found, error) ==
    [raised |-> FALSE, query |-> query, cited |-> cited,
     citation_snippet |-> citation_snippet, sources_found |-> sources_found,
     error |-> error]

\* CitationFailure with the result marked as cited
CitationFailure_Cited(query, error) == CitationResult(query, TRUE, "", <<>>, error)

\* perplexity_checker.py 80-108: the result of a call that failed
CitationFailure(query, error) == CitationResult(query, FALSE, "", <<>>, error)

\* perplexity_checker.py 111-112: the citations of the body, when a list
SourcesFound(data) ==
    LET citations == DictGet(Val(data), "citations", JList(<<>>))
    IN  IF ~citations.ok THEN citations
        ELSE IF citations.v.t = "list" THEN Val(citations.v.v)
        ELSE Val(<<>>)

\* perplexity_checker.py 115-117: the text of the answer
AnswerContent(data) ==
    LET choices == DictGet(Val(data), "choices", JNull)
    IN  IF ~choices.ok THEN choices
        ELSE IF ~Truthy(choices.v) THEN Val(JStr(""))
        ELSE IF choices.v.t \notin {"str", "list", "dict"}
        THEN Exc("TypeError", "object has no len()")
        ELSE DictGet(DictGet(GetFirst(choices), "message", JDict(NoMembers)),
                     "content", JStr(""))

\* perplexity_checker.py 127: the two normalized urls, one inside the other
UrlsMatch(target_normalized, source_normalized) ==
    contains(target_normalized, source_normalized)
        \/ contains(source_normalized, target_normalized)

\* perplexity_checker.py 130: the answer, cut when it is long
Snippet(content) ==
    IF content.t = "str"
    THEN IF Len(content.v) > SnippetLimit
         THEN Val(SubSeq(content.v, 1, SnippetLimit) \o "...")
         ELSE Val(content.v)
    ELSE IF content.t \in {"list", "dict"}
    THEN IF (IF content.t = "list" THEN Len(content.v)
             ELSE Cardinality(DOMAIN content.v)) > SnippetLimit
         THEN Exc("TypeError", "no slice of the object can be joined to a str")
         ELSE Val(content)
    ELSE Exc("TypeError", "object has no len()")

\* the outcome of the loop over the sources: cited and citation_snippet
Scanned(cited, citation_snippet) ==
    [ok |-> TRUE, cited |-> cited, citation_snippet |-> citation_snippet]

RECURSIVE ScanSources(_, _, _, _)
\* perplexity_checker.py 121-131: the loop over the sources from the i-th on
ScanSources(sources, i, target_normalized, content) ==
    IF i > Len(sources) THEN Scanned(FALSE, "")
    ELSE IF sources[i].t # "str"
    THEN Exc("AttributeError", "object has no attribute 'lower'")
    ELSE IF UrlsMatch(target_normalized, normalize_url(sources[i].v))
    THEN IF Snippet(content).ok THEN Scanned(TRUE, Snippet(content).v)
         ELSE Snippet(content)
    ELSE ScanSources(sources, i + 1, target_normalized, content)

\* perplexity_checker.py 110-138: the result for a body that was received
CitationFromBody(query, target_url, data) ==
    LET sources_found == SourcesFound(data)
        content == AnswerContent(data)
        found == ScanSources(sources_found.v, 1, normalize_url(target_url), content.v)
    IN  IF ~sources_found.ok THEN Raises(sources_found.exc)
        ELSE IF ~content.ok THEN Raises(content.exc)
        ELSE IF ~found.ok THEN Raises(found.exc)
        ELSE CitationResult(query, found.cited, found.citation_snippet,
                            sources_found.v, None)

\* check_citation (perplexity_checker.py 35-138)
check_citation(query, target_url, outcome) ==
    CASE outcome.kind = "Timeout" -> CitationFailure(query, "Request timed out")
      [] outcome.kind = "HTTPError" ->
            CitationFailure(query,
                IF outcome.status_code = 401 THEN "Invalid API key"
                ELSE IF outcome.status_code = 429 THEN "Rate limit exceeded"
                ELSE "API error: " \o ToString(outcome.status_code))
      [] outcome.kind = "RequestException" ->
            CitationFailure(query, "Request failed: " \o outcome.message)
      [] outcome.kind = "data" -> CitationFromBody(query, target_url, outcome.data)

\* the number of results that satisfy a test, as sum(1 for r in results if ...)
CountCited(results) == Cardinality({i \in 1..Len(results) : results[i].cited})

CountErrors(results) ==
    Cardinality({i \in 1..Len(results) :
                    results[i].error # None /\ results[i].error # ""})

\* get_citation_summary (perplexity_checker.py 166-188); the rate is the
\* quotient cited_count * 100 / total, kept as its two terms
get_citation_summary(results) ==
    LET total == Len(results)
        cited_count == CountCited(results)
        error_count == CountErrors(results)
    IN  [total_queries |-> total,
         cited_count |-> cited_count,
         not_cited_count |-> total - cited_count - error_count,
         error_count |-> error_count,
         citation_rate |-> IF total > 0 THEN [num |-> cited_count * 100, den |-> total]
                           ELSE [num |-> 0, den |-> 1],
         all_sources |-> UNION {Range(results[i].sources_found) : i \in 1..Len(results)}]

----------------------------------------------------------------------------
(* Recommendation provider: generate_recommendations                       *)
(* (recommender.py 22-175).  What the provider does is an outcome: an      *)
(* exception of the HTTP call, or the JSON value of the response's body.   *)
(* The prompt and the payload (recommender.py 57-102) are built from the   *)
(* arguments without a branch that changes the result, and are left out.   *)

\* stands for the arrow character of recommender.py 148
Arrow == "$"

\* recommender.py 148: the characters lstrip removes
RecNumberingChars == NumberingChars \cup {Arrow}

\* recommender.py 149: a recommendation is longer than this
MinRecommendationLen == 10

\* str.lstrip("0123456789.-)*<bullet><arrow> ")
LStripRecNumbering(rec) ==
    LET keep == {i \in 1..Len(rec) :
                    ~(IsDigit(Char(rec, i)) \/ Char(rec, i) \in RecNumberingChars)}
    IN  IF keep = {} THEN ""
        ELSE SubSeq(rec, CHOOSE i \in keep : \A j \in keep : i <= j, Len(rec))

\* RecommendationResult (recommender.py 14-19)
RecommendationResult(recommendations, success, error) ==
    [raised |-> FALSE, recommendations |-> recommendations, success |-> success,
     error |-> error]

\* HasApiKey as "api_key is not None": the empty key counts as a credential
HasApiKey_NotNone(api_key) == api_key # None

\* recommender.py 50: "if not api_key" holds for None and for ""
HasApiKey(api_key) == api_key # None /\ api_key # ""

\* recommender.py 51-55
MissingKeyResult == RecommendationResult(<<>>, FALSE, "OpenAI API key not provided")

\* recommender.py 141-168: the completion's text parsed into recommendations
ParseRecommendations(content) ==
    LET nonEmpty(r) == r # ""
        longEnough(r) == r # "" /\ Len(r) > MinRecommendationLen
        lines == SplitLines(content)
        recommendations == SelectSeq([i \in 1..Len(lines) |-> strip(lines[i])], nonEmpty)
        cleaned ==
            SelectSeq([i \in 1..Len(recommendations) |->
                          strip(LStripRecNumbering(recommendations[i]))], longEnough)
    IN  IF Len(cleaned) >= 3 THEN RecommendationResult(FirstN(cleaned, 3), TRUE, None)
        ELSE IF Len(cleaned) > 0 THEN RecommendationResult(cleaned, TRUE, None)
        ELSE RecommendationResult(<<>>, FALSE,
                 "Could not parse recommendations from response")

\* recommender.py 139-175: the parsing of the body, with the two exceptions
\* it catches and the others, which leave the function
ParseRecommendationBody(data) ==
    LET content ==
            StripOf(GetItem(GetItem(GetFirst(GetItem(Val(data), "choices")),
                                    "message"), "content"))
    IN  IF content.ok THEN ParseRecommendations(content.v.v)
        ELSE IF content.exc \in {"KeyError", "IndexError"}
        THEN RecommendationResult(<<>>, FALSE,
                 "Failed to parse response: " \o content.message)
        ELSE Raises(content.exc)

\* recommender.py 104-175: the result for what the provider did
RequestRecommendations(outcome) ==
    CASE outcome.kind = "Timeout" ->
            RecommendationResult(<<>>, FALSE, "Request timed out")
      [] outcome.kind = "HTTPError" ->
            RecommendationResult(<<>>, FALSE,
                IF outcome.status_code = 401 THEN "Invalid API key"
                ELSE IF outcome.status_code = 429 THEN "Rate limit exceeded"
                ELSE "API error: " \o ToString(outcome.status_code))
      [] outcome.kind = "RequestException" ->
            RecommendationResult(<<>>, FALSE, "Request failed: " \o outcome.message)
      [] outcome.kind = "data" -> ParseRecommendationBody(outcome.data)

----------------------------------------------------------------------------
(* Pipeline orchestrator: analyze_url (analyzer.py 297-356) with           *)
(* smart_generate_queries (analyzer.py 257-294), one action per step.      *)

\* analyzer.py 330: the size of the leading window
FirstWordsLimit == 500

\* AnalysisResult (analyzer.py 15-33); __post_init__ turns a missing query
\* list into the empty list
AnalysisResult(url, title, total_word_count, first_500_words, first_paragraph, has_direct_answer, direct_answer_score, direct_answer_reasons, extraction_success, generated_queries, queries_ai_generated, error_message) ==
    [url |-> url,
     title |-> title,
     total_word_count |-> total_word_count,
     first_500_words |-> first_500_words,
     first_paragraph |-> first_paragraph,
     has_direct_answer |-> has_direct_answer,
     direct_answer_score |-> direct_answer_score,
     direct_answer_reasons |-> direct_answer_reasons,
     extraction_success |-> extraction_success,
     generated_queries |-> generated_queries,
     queries_ai_generated |-> queries_ai_generated,
     error_message |-> error_message]

\* FailureResult with the collaborator's error wrapped in a message of its own
FailureResult_Wrapped(url, error) ==
    AnalysisResult(url, "", 0, "", "", FALSE, 0, <<>>, FALSE, <<>>, FALSE,
                   "Analysis failed: " \o error)

\* analyzer.py 312-323: the record returned when the fetch failed
FailureResult(url, error) ==
    AnalysisResult(url, "", 0, "", "", FALSE, 0, <<>>, FALSE, <<>>, FALSE, error)

\* analyzer.py 344-356: the record returned at the end of the pipeline
SuccessResult(l) ==
    AnalysisResult(l.url, l.title, l.total_words, l.first_500, l.first_paragraph,
                   l.has_answer, l.answer_score, l.answer_reasons, TRUE,
                   l.queries, l.ai_generated, None)

\* analyzer.py 305-306: the scheme is prefixed when the url has none
EnsureScheme(url) ==
    IF ~(startswith(url, "http://") \/ startswith(url, "https://"))
    THEN "https://" \o url
    ELSE url

\* HasCredential as "openai_api_key is not None": the empty key counts
HasCredential_NotNone(openai_api_key) == openai_api_key # None

\* analyzer.py 275: "if openai_api_key" is false for None and for ""
HasCredential(openai_api_key) == openai_api_key # None /\ openai_api_key # ""

\* analyzer.py 286: the provider's result is used
ProviderResultUsable(result) ==
    ~result.raised /\ result.is_ai_generated /\ Len(result.queries) >= 3

\* the locals of analyze_url before any is assigned
NoLocals ==
    [url |-> None, html |-> None, error |-> None, full_text |-> None,
     title |-> None, paragraphs |-> None, total_words |-> None,
     first_500 |-> None, first_paragraph |-> None, has_answer |-> None,
     answer_score |-> None, answer_reasons |-> None, result |-> None,
     queries |-> None, ai_generated |-> None]

\* analyzer.py 304-309: the url is given its scheme and the page is fetched
FetchPage(outcome) ==
    /\ pc = "start"
    /\ LET url == EnsureScheme(arg.url)
           fetched == fetch_page_content(outcome)
       IN  loc' = [loc EXCEPT !.url = url, !.html = fetched.html,
                              !.error = fetched.error]
    /\ calls' = Append(calls, "fetch_page_content")
    /\ net' = Append(net, outcome)
    /\ pc' = "fetched"
    /\ UNCHANGED <<arg, ret>>

\* analyzer.py 311-323: a fetch error ends the analysis
ReturnFailure ==
    /\ pc = "fetched"
    /\ loc.error # None /\ loc.error # ""
    /\ ret' = FailureResult(loc.url, loc.error)
    /\ pc' = "done"
    /\ UNCHANGED <<arg, loc, calls, net>>

\* analyzer.py 326
ExtractText ==
    /\ pc = "fetched"
    /\ ~(loc.error # None /\ loc.error # "")
    /\ LET x == extract_text_content(loc.html)
       IN  loc' = [loc EXCEPT !.full_text = x.full_text, !.title = x.title,
                              !.paragraphs = x.paragraphs]
    /\ calls' = Append(calls, "extract_text_content")
    /\ pc' = "extracted"
    /\ UNCHANGED <<arg, ret, net>>

\* analyzer.py 329-331
GetMetrics ==
    /\ pc = "extracted"
    /\ loc' = [loc EXCEPT
                 !.total_words = count_words(loc.full_text),
                 !.first_500 = get_first_n_words(loc.full_text, FirstWordsLimit),
                 !.first_paragraph =
                     IF Len(loc.paragraphs) > 0 THEN loc.paragraphs[1] ELSE ""]
    /\ calls' = calls \o <<"count_words", "get_first_n_words">>
    /\ pc' = "measured"
    /\ UNCHANGED <<arg, ret, net>>

\* analyzer.py 334
CheckDirectAnswer ==
    /\ pc = "measured"
    /\ LET r == check_direct_answer(loc.first_paragraph)
       IN  loc' = [loc EXCEPT !.has_answer = r.is_direct_answer,
                              !.answer_score = r.score,
                              !.answer_reasons = r.reasons]
    /\ calls' = Append(calls, "check_direct_answer")
    /\ pc' = "scored"
    /\ UNCHANGED <<arg, ret, net>>

\* analyzer.py 337-342 and 275: smart_generate_queries is entered
SmartGenerateQueries ==
    /\ pc = "scored"
    /\ calls' = Append(calls, "smart_generate_queries")
    /\ pc' = IF HasCredential(arg.openai_api_key) THEN "provider" ELSE "fallback"
    /\ UNCHANGED <<arg, ret, loc, net>>

\* CallProvider with one more call of the provider after a call that failed
CallProvider_Retry(outcome) ==
    /\ pc = "provider"
    /\ calls' = Append(calls, "generate_queries_with_llm")
    /\ LET result == generate_queries_with_llm(outcome)
       IN  IF ProviderResultUsable(result)
           THEN /\ loc' = [loc EXCEPT !.result = result,
                                      !.queries = FirstN(result.queries, 3),
                                      !.ai_generated = TRUE]
                /\ pc' = "assemble"
           ELSE /\ loc' = [loc EXCEPT !.result = result]
                /\ pc' = IF Len(net) < 2 THEN "provider" ELSE "fallback"
    /\ net' = Append(net, outcome)
    /\ UNCHANGED <<arg, ret>>

\* analyzer.py 276-290: the provider is called; its result is returned when
\* usable, and anything else, an exception included, falls through
CallProvider(outcome) ==
    /\ pc = "provider"
    /\ calls' = Append(calls, "generate_queries_with_llm")
    /\ LET result == generate_queries_with_llm(outcome)
       IN  IF ProviderResultUsable(result)
           THEN /\ loc' = [loc EXCEPT !.result = result,
                                      !.queries = FirstN(result.queries, 3),
                                      !.ai_generated = TRUE]
                /\ pc' = "assemble"
           ELSE /\ loc' = [loc EXCEPT !.result = result]
                /\ pc' = "fallback"
    /\ net' = Append(net, outcome)
    /\ UNCHANGED <<arg, ret>>

\* analyzer.py 292-294
RuleBasedFallback ==
    /\ pc = "fallback"
    /\ loc' = [loc EXCEPT
                 !.queries = generate_queries_rule_based(loc.title, loc.first_paragraph),
                 !.ai_generated = FALSE]
    /\ calls' = Append(calls, "generate_queries_rule_based")
    /\ pc' = "assemble"
    /\ UNCHANGED <<arg, ret, net>>

\* analyzer.py 344-356
ReturnSuccess ==
    /\ pc = "assemble"
    /\ ret' = SuccessResult(loc)
    /\ pc' = "done"
    /\ UNCHANGED <<arg, loc, calls, net>>

----------------------------------------------------------------------------
(* The inputs of the pipeline: urls, credentials, pages and what the       *)
(* network does.                                                           *)

Block(tag, text) == [tag |-> tag, text |-> text]

Section(tag, class, role, blocks) ==
    [tag |-> tag, class |-> class, id |-> "", role |-> role, blocks |-> blocks]

\* an element with an id attribute and neither class nor role
SectionWithId(tag, id, blocks) ==
    [tag |-> tag, class |-> "", id |-> id, role |-> "", blocks |-> blocks]

Document(title, body, sections) ==
    [title |-> title, body |-> body, sections |-> sections]

DogParagraph == "Training a dog takes patience and consistent methods."

PlantParagraph ==
    "Photosynthesis is the process by which plants convert light into energy."

\* an empty response body: the parser builds no title and no body
EmptyPage == Document(None, FALSE, <<>>)

\* a title element alone: the parser builds a head and no body
TitleOnlyPage == Document("  My Page ", FALSE, <<>>)

DogPage ==
    Document("How to Train a Dog | PetSite", TRUE,
        <<Section("nav", "menu", "", <<Block("li", "Home and all the other sections")>>),
          Section("div", "Post-Body", "",
              <<Block("h1", "Dog training"),
                Block("p", "  " \o DogParagraph \o "\n"),
                Block("span", "Share   this\tpage")>>),
          Section("footer", "", "", <<Block("p", "Copyright, all rights reserved")>>)>>)

PlantPage ==
    Document("Photosynthesis - Wiki", TRUE,
        <<Section("div", "sidebar", "", <<Block("p", "An unrelated teaser of some length")>>),
          Section("article", "", "",
              <<Block("script", "var tracking = 'a long enough script text';"),
                Block("p", PlantParagraph),
                Block("li", "The best plants compared: 3 facts that help")>>),
          Section("main", "", "",
              <<Block("p", "The process is defined as 1 step: are you ready?")>>)>>)

\* no block is long enough to be a candidate paragraph
ShortPage ==
    Document("Understanding Widgets", TRUE,
        <<Section("div", "wrapper", "", <<Block("p", "Too short"), Block("p", "   ")>>)>>)

\* the title is empty once its site-name suffix is removed
SuffixTitlePage ==
    Document(" | Site Name", TRUE,
        <<Section("section", "", "main",
              <<Block("h2", "Why this approach is the best way to improve")>>)>>)

\* no title element; the only long text is in an element that is no paragraph
UntitledPage ==
    Document(None, TRUE,
        <<Section("div", "", "", <<Block("span", "A long text in a span, which is no paragraph")>>)>>)

Pages ==
    {EmptyPage, TitleOnlyPage, DogPage, PlantPage, ShortPage, SuffixTitlePage,
     UntitledPage}

Urls ==
    {"example.com/page", "http://example.com", "https://example.com/a",
     "HTTP://Example.com", "ftp://example.com/file"}

ApiKeys == {None, "", "sk-test"}

\* what requests.get does (analyzer.py 48-58)
FetchOutcomes ==
    {[kind |-> "ok", html |-> page] : page \in Pages}
    \cup {[kind |-> "Timeout"], [kind |-> "ConnectionError"]}
    \cup {[kind |-> "HTTPError", status_code |-> c] : c \in {404, 503}}
    \cup {[kind |-> "RequestException", message |-> "Invalid URL"]}

\* the most lines a completion of the provider holds in the model
MaxLines == 4

ContentLines == {"what is dog training", "2. how to train a dog ", "- "}

\* every text of at most MaxLines lines, each one of ContentLines
Contents ==
    {join("\n", lines) : lines \in UNION {[1..n -> ContentLines] : n \in 0..MaxLines}}

\* what requests.post and the parsing of its body do
\* (query_generator.py 71-135)
ProviderOutcomes ==
    {[kind |-> "Timeout"], [kind |-> "OtherException"]}
    \cup {[kind |-> "HTTPError", status_code |-> c] : c \in {401, 429, 500}}
    \cup {[kind |-> "RequestException", message |-> "connection reset"]}
    \cup {[kind |-> "KeyError", message |-> "'choices'"]}
    \cup {[kind |-> "content", content |-> c] : c \in Contents}

Init ==
    /\ pc = "start"
    /\ arg \in [url : Urls, openai_api_key : ApiKeys]
    /\ ret = None
    /\ loc = NoLocals
    /\ calls = <<>>
    /\ net = <<>>

Next ==
    \/ \E outcome \in FetchOutcomes : FetchPage(outcome)
    \/ ReturnFailure
    \/ ExtractText
    \/ GetMetrics
    \/ CheckDirectAnswer
    \/ SmartGenerateQueries
    \/ \E outcome \in ProviderOutcomes : CallProvider(outcome)
    \/ RuleBasedFallback
    \/ ReturnSuccess

Spec == Init /\ [][Next]_vars

----------------------------------------------------------------------------
(* The scorer on its own: check_direct_answer applied to paragraphs put    *)
(* together from an opening, a body, filler words and an ending.           *)

\* how far below each length threshold the filler counts start
Slack == 1

RECURSIVE Filler(_)
\* n filler words
Filler(n) ==
    IF n = 0 THEN ""
    ELSE IF n = 1 THEN " w"
    ELSE Filler(n \div 2) \o Filler(n - n \div 2)

Openings ==
    {"", "The ", "IT ", " a ", "Welcome to ", "subscribe ", "Photosynthesis "}

Bodies ==
    {"cat sat", "is the process", "this island", "has 7 parts", "ideal",
     "is 42 known as sale", "are 3 of them"}

FillerCounts ==
    {0} \cup ((GoodLengthMin - 1 - Slack)..GoodLengthMin)
        \cup ((GoodLengthMax - 1 - Slack)..GoodLengthMax)

Endings == {"", ".", "?", "? \n"}

Paragraphs ==
    {o \o b \o Filler(n) \o e :
        o \in Openings, b \in Bodies, n \in FillerCounts, e \in Endings}
    \cup {"", "  ", "?", PlantParagraph, DogParagraph}

ScorerInit ==
    /\ pc = "start"
    /\ arg \in [first_paragraph : Paragraphs]
    /\ ret = None
    /\ loc = NoLocals
    /\ calls = <<>>
    /\ net = <<>>

\* one call of check_direct_answer
ScoreParagraph ==
    /\ pc = "start"
    /\ ret' = check_direct_answer(arg.first_paragraph)
    /\ pc' = "done"
    /\ UNCHANGED <<arg, loc, calls, net>>

ScorerNext == ScoreParagraph

SpecScorer == ScorerInit /\ [][ScorerNext]_vars

----------------------------------------------------------------------------
(* The synthesizer on its own: generate_queries_rule_based applied to      *)
(* titles put together from a prefix, a topic and a site-name suffix.      *)

TitlePrefixes ==
    {"", "How to ", "HOW TO", "Guide to ", "the complete ", "A Guide To ", " "}

TitleTopics == {"", "Train a Dog", "understanding how to", "x"}

TitleSuffixes == {"", " | PetSite", "- Site", "|", " " \o EnDash \o " a-b", EmDash \o "how to"}

Titles == {p \o t \o x : p \in TitlePrefixes, t \in TitleTopics, x \in TitleSuffixes}

SynthParagraphs ==
    {"", " ", DogParagraph, PlantParagraph, "It HELPS to improve", "The best way",
     "top 3 vs", "plain text"}

SynthInit ==
    /\ pc = "start"
    /\ arg \in [title : Titles, first_paragraph : SynthParagraphs]
    /\ ret = None
    /\ loc = NoLocals
    /\ calls = <<>>
    /\ net = <<>>

\* one call of generate_queries_rule_based
SynthesizeQueries ==
    /\ pc = "start"
    /\ ret' = generate_queries_rule_based(arg.title, arg.first_paragraph)
    /\ pc' = "done"
    /\ UNCHANGED <<arg, loc, calls, net>>

SynthNext == SynthesizeQueries

SpecSynth == SynthInit /\ [][SynthNext]_vars

----------------------------------------------------------------------------
(* The word count on its own: count_words applied to a text, to the text   *)
(* with whitespace added at both ends, and to the text with the whitespace *)
(* at its ends removed.                                                    *)

\* the longest whitespace padding added at one end
MaxPad == 2

RECURSIVE Paddings(_)
\* the whitespace strings of at most n characters
Paddings(n) ==
    IF n = 0 THEN {""}
    ELSE Paddings(n - 1) \cup {p \o c : p \in Paddings(n - 1), c \in {" ", "\t", "\n"}}

Texts ==
    {"", " ", "word", "two words", "a  b\tc\n\nd", " lead", "trail \n", "\t x \r\n y "}

WordsInit ==
    /\ pc = "start"
    /\ arg \in [text : Texts, left : Paddings(MaxPad), right : Paddings(MaxPad)]
    /\ ret = None
    /\ loc = NoLocals
    /\ calls = <<>>
    /\ net = <<>>

\* count_words called on the text, on the padded text and on the stripped text
CountWords ==
    /\ pc = "start"
    /\ ret' = [plain |-> count_words(arg.text),
               padded |-> count_words(arg.left \o arg.text \o arg.right),
               stripped |-> count_words(strip(arg.text))]
    /\ pc' = "done"
    /\ UNCHANGED <<arg, loc, calls, net>>

WordsNext == CountWords

SpecWords == WordsInit /\ [][WordsNext]_vars

----------------------------------------------------------------------------
(* Claims about the pipeline, checked under Spec.                          *)

\* the failure shape of a record: the error is set and every derived field
\* holds its default
FailureShape(r) ==
    /\ ~r.extraction_success
    /\ r.error_message # None /\ r.error_message # ""
    /\ r.title = "" /\ r.first_500_words = "" /\ r.first_paragraph = ""
    /\ r.total_word_count = 0
    /\ r.direct_answer_score = 0
    /\ ~r.has_direct_answer
    /\ r.direct_answer_reasons = <<>>
    /\ Len(r.generated_queries) = 0
    /\ ~r.queries_ai_generated

\* the success shape of a record: no error, and exactly 3 queries
SuccessShape(r) ==
    /\ r.extraction_success
    /\ r.error_message = None
    /\ Len(r.generated_queries) = 3

\* C1: every record analyze_url returns, whatever the url, the fetch outcome
\* and the provider outcome, has either the failure shape or the success
\* shape, and never both.
C1_RecordIsFailureOrSuccess ==
    pc = "done" =>
        /\ FailureShape(ret) \/ SuccessShape(ret)
        /\ ~(FailureShape(ret) /\ SuccessShape(ret))

\* C1 witness: a success record for a page whose title is empty once its
\* suffix is removed, with queries made by the rule-based synthesizer
C1_Witness ==
    /\ pc = "done"
    /\ SuccessShape(ret)
    /\ ret.title = "| Site Name"
    /\ ret.first_paragraph # ""
    /\ ~ret.queries_ai_generated

\* the fetch of this analysis failed
FetchFailed == Len(net) >= 1 /\ net[1].kind # "ok"

\* C2: when the fetch collaborator reports an error, analyze_url returns the
\* failure record at once, its error_message is the collaborator's error
\* string unchanged, and neither the extractor, the scorer, the synthesizer
\* nor the query-generation provider is invoked in that analysis.
C2_FetchFailureAborts ==
    FetchFailed =>
        /\ pc \in {"fetched", "done"}
        /\ calls = <<"fetch_page_content">>
        /\ Len(net) = 1
        /\ pc = "done" =>
              /\ FailureShape(ret)
              /\ ret.error_message = loc.error
              /\ ret.error_message = fetch_page_content(net[1]).error
              /\ ret.url = loc.url

\* C2 witness: the failure record of a fetch that ended in an HTTP error
C2_Witness ==
    /\ pc = "done"
    /\ FetchFailed
    /\ net[1].kind = "HTTPError"
    /\ ret.error_message = "HTTP error: 404"

\* the provider was called with a credential and returned an AI-generated
\* result of at least 3 queries
ProviderDelivered ==
    /\ arg.openai_api_key # None /\ arg.openai_api_key # ""
    /\ Len(net) = 2
    /\ ~loc.result.raised
    /\ loc.result.is_ai_generated
    /\ Len(loc.result.queries) >= 3

\* the provider failed: a timeout, an HTTP error, a failed request, a
\* malformed response or any other exception
ProviderFailed ==
    /\ Len(net) = 2
    /\ net[2].kind \in {"Timeout", "HTTPError", "RequestException", "KeyError",
                        "OtherException"}

\* C3: the AI flag is true exactly when a credential was supplied and the
\* provider returned an AI-generated result with at least 3 queries, and then
\* the queries are the provider's first 3; in every other case (no
\* credential, a provider failure of any kind, fewer than 3 queries) the
\* queries are the rule-based synthesizer's for (title, first paragraph), the
\* flag is false and the record is a success record with no error message.
C3_ProviderOrFallback ==
    (pc = "done" /\ ~FetchFailed) =>
        /\ ret.queries_ai_generated <=> ProviderDelivered
        /\ ProviderFailed => ~ret.queries_ai_generated
        /\ ProviderDelivered =>
              ret.generated_queries = SubSeq(loc.result.queries, 1, 3)
        /\ ~ProviderDelivered =>
              /\ ret.generated_queries =
                     generate_queries_rule_based(ret.title, ret.first_paragraph)
              /\ ~ret.queries_ai_generated
        /\ ret.extraction_success
        /\ ret.error_message = None

\* C3 witness: the provider raised an exception of no expected kind and the
\* record carries the rule-based queries
C3_Witness ==
    /\ pc = "done"
    /\ Len(net) = 2
    /\ net[2].kind = "OtherException"
    /\ ret.extraction_success
    /\ ~ret.queries_ai_generated
    /\ ret.generated_queries[1] = "What is train a dog?"

\* C4: for an empty first paragraph check_direct_answer returns verdict
\* false, score 0 and exactly the reason "No first paragraph found", no
\* rubric check adding a reason; a success record carries this when the
\* extractor found no candidate paragraph.
C4_EmptyParagraphShortCircuit ==
    /\ (pc \in {"scored", "provider", "fallback", "assemble", "done"}
            /\ ~FetchFailed /\ loc.first_paragraph = "") =>
          /\ loc.has_answer = FALSE
          /\ loc.answer_score = 0
          /\ loc.answer_reasons = <<"No first paragraph found">>
    /\ (pc = "done" /\ ~FetchFailed /\ Len(loc.paragraphs) = 0) =>
          /\ ret.extraction_success
          /\ ret.first_paragraph = ""
          /\ ret.has_direct_answer = FALSE
          /\ ret.direct_answer_score = 0
          /\ ret.direct_answer_reasons = <<"No first paragraph found">>

\* C4 witness: a success record of a page that has text and no candidate
\* paragraph
C4_Witness ==
    /\ pc = "done"
    /\ ~FetchFailed
    /\ Len(loc.paragraphs) = 0
    /\ ret.total_word_count > 0
    /\ ret.direct_answer_reasons = <<"No first paragraph found">>

----------------------------------------------------------------------------
(* Claims about the scorer, checked under SpecScorer.                      *)

\* the paragraph scored in this state is not empty
ScoredNonEmpty == pc = "done" /\ arg.first_paragraph # ""

\* C5: for every input string the score of check_direct_answer is an integer
\* in 0..100, also when every bonus triggers, and the verdict is true exactly
\* when that returned score is at least 50.
C5_ScoreRangeAndVerdict ==
    pc = "done" =>
        /\ ret.score \in 0..100
        /\ ret.is_direct_answer <=> (ret.score >= 50)

\* C5 witness: a paragraph for which every bonus triggers
C5_Witness ==
    /\ pc = "done"
    /\ Len(ret.reasons) = 6
    /\ ret.score = 100
    /\ ret.is_direct_answer

\* the rubric check a reason string belongs to, 0 when it belongs to none
ReasonCheck(reason) ==
    IF \/ startswith(reason, "Good length (")
       \/ startswith(reason, "Too short (")
       \/ startswith(reason, "Long first paragraph (")
    THEN 1
    ELSE IF \/ reason = "Starts with a definitive statement"
            \/ reason = "First paragraph is a question, not an answer"
    THEN 2
    ELSE IF reason = "Contains defining language (is, are, means, etc.)" THEN 3
    ELSE IF \/ reason = "Doesn't start with weak/promotional phrases"
            \/ reason = "Starts with weak/promotional phrase - get to the answer faster"
    THEN 4
    ELSE IF reason = "Contains specific numbers/data" THEN 5
    ELSE IF \/ reason = "Not promotional - focused on information"
            \/ reason = "Contains promotional language"
    THEN 6
    ELSE 0

\* the rubric checks that left a reason, in the order of the reasons
ReasonChecks(reasons) == [i \in 1..Len(reasons) |-> ReasonCheck(reasons[i])]

\* the paragraph, lower-cased, starts with one of the definitive words
StartsDefinitive(p) ==
    \E w \in {"the ", "a ", "an ", "it ", "this ", "there "} : startswith(lower(p), w)

\* the paragraph ends with "?", the whitespace around it apart (a first
\* paragraph comes from the extractor without any)
EndsWithQuestion(p) == endswith(strip(p), "?")

\* the paragraph holds one of the defining words or phrases as whole words
HasDefiningLanguage(p) ==
    \E w \in {"is", "are", "means", "refers to", "defined as", "known as", "called"} :
        SearchWord(w, lower(p))

\* C6 as stated: for every non-empty paragraph each of the six checks appends
\* exactly one reason, so the list holds six reasons, one per check in order.
C6_Original_SixReasons ==
    ScoredNonEmpty => ReasonChecks(ret.reasons) = <<1, 2, 3, 4, 5, 6>>

\* C6 as amended: for every non-empty paragraph each check appends at most one
\* reason and the reasons are in the check order; the length, weak-opening
\* and promotional checks always append one; the definitive-opening check
\* appends one only when the paragraph ends with "?" or earns its bonus, the
\* defining-language check only when it matches and the digit check only when
\* a digit occurs; so the list holds 3 to 6 reasons.
C6_ReasonsPerCheck ==
    ScoredNonEmpty =>
        LET checks == ReasonChecks(ret.reasons)
            left == Range(checks)
            p == arg.first_paragraph
        IN  /\ \A i \in 1..Len(checks) : checks[i] \in 1..6
            /\ \A i, j \in 1..Len(checks) : i < j => checks[i] < checks[j]
            /\ {1, 4, 6} \subseteq left
            /\ 2 \in left <=> (EndsWithQuestion(p) \/ StartsDefinitive(p))
            /\ 3 \in left <=> HasDefiningLanguage(p)
            /\ 5 \in left <=> SearchDigits(p)
            /\ Len(checks) \in 3..6

\* C6 witness: a non-empty paragraph with a reason from three checks only
C6_Witness ==
    /\ ScoredNonEmpty
    /\ ReasonChecks(ret.reasons) = <<1, 4, 6>>

\* the points of the rubric for a paragraph, each stated on its own
LengthPoints(p) ==
    LET n == count_words(p)
    IN  IF n < 20 THEN 0 ELSE IF n <= 100 THEN 25 ELSE 10

DefinitivePoints(p) == IF ~EndsWithQuestion(p) /\ StartsDefinitive(p) THEN 20 ELSE 0

DefiningPoints(p) == IF HasDefiningLanguage(p) THEN 20 ELSE 0

WeakStartPoints(p) ==
    IF \E w \in {"in this article", "in this post", "welcome to", "today we",
                 "let's", "click here", "subscribe"} : startswith(lower(p), w)
    THEN 0 ELSE 15

DigitPoints(p) == IF SearchDigits(p) THEN 10 ELSE 0

PromoPoints(p) ==
    IF \E w \in {"buy", "purchase", "discount", "sale", "offer", "deal", "subscribe"} :
           contains(w, lower(p))
    THEN 0 ELSE 10

\* C7: for every non-empty paragraph the score is the sum of the rubric
\* points (length 25, 0 or 10; definitive opening 20; defining language 20;
\* no weak opening 15; a digit 10; no promotional word 10); a paragraph that
\* ends with "?" never has the definitive-opening points; and the paragraph
\* "Photosynthesis is the process by which plants convert light into energy."
\* scores 0+0+20+15+0+10 = 45 with verdict false.
C7_ScoreIsSumOfPoints ==
    ScoredNonEmpty =>
        LET p == arg.first_paragraph
        IN  /\ ret.score = LengthPoints(p) + DefinitivePoints(p) + DefiningPoints(p)
                             + WeakStartPoints(p) + DigitPoints(p) + PromoPoints(p)
            /\ endswith(p, "?") =>
                  /\ DefinitivePoints(p) = 0
                  /\ \A i \in 1..Len(ret.reasons) :
                         ret.reasons[i] # "Starts with a definitive statement"
            /\ p = PlantParagraph =>
                  /\ LengthPoints(p) = 0 /\ DefinitivePoints(p) = 0
                  /\ DefiningPoints(p) = 20 /\ WeakStartPoints(p) = 15
                  /\ DigitPoints(p) = 0 /\ PromoPoints(p) = 10
                  /\ ret.score = 45
                  /\ ~ret.is_direct_answer

\* C7 witness: the example paragraph, scored
C7_Witness ==
    /\ pc = "done"
    /\ arg.first_paragraph = PlantParagraph
    /\ ret.score = 45

----------------------------------------------------------------------------
(* Claims about the synthesizer, checked under SpecSynth.                  *)

\* C8: generate_queries_rule_based returns exactly 3 strings, none empty, for
\* every (title, first paragraph), both empty included, as well as an empty
\* title with a paragraph and a title that is empty without its suffix.
C8_ThreeNonEmptyQueries ==
    pc = "done" =>
        /\ Len(ret) = 3
        /\ \A i \in 1..3 : ret[i] # ""

\* C8 witness: a title that is empty once its suffix is removed, with a
\* paragraph, so that the third query is the one the padding adds
C8_Witness ==
    /\ pc = "done"
    /\ arg.title = " | PetSite"
    /\ arg.first_paragraph = DogParagraph
    /\ ret[3] = "What are the benefits of ?"

DogTitle == "How to Train a Dog | PetSite"

\* the synthesizer ran on the example of the dog page
DogExample ==
    pc = "done" /\ arg.title = DogTitle /\ arg.first_paragraph = DogParagraph

\* C9 as stated: for the dog page the queries are "What is train a dog?",
\* "how to train a dog?" and "Why use train a dog?".
C9_Original_LowerCaseQuery2 ==
    DogExample =>
        ret = <<"What is train a dog?", "how to train a dog?", "Why use train a dog?">>

\* C9 as amended: for the dog page the queries are "What is train a dog?",
\* "How to Train a Dog?" and "Why use train a dog?": query 1 uses the
\* lower-cased title without its site suffix and its "how to " prefix, query
\* 2 is the cleaned title in the title's own letter case followed by "?",
\* because the title contains "how to", and query 3 is the "Why use" form.
C9_DogPageQueries ==
    /\ DogExample =>
          ret = <<"What is train a dog?", "How to Train a Dog?", "Why use train a dog?">>
    /\ (pc = "done" /\ contains("how to", lower(arg.title))
            /\ ~(CleanTitle(arg.title) = "" /\ arg.first_paragraph = "")) =>
          \E i \in 1..2 : ret[i] = strip(FirstPiece(arg.title)) \o "?"

\* C9 witness: the synthesizer has run on the dog page
C9_Witness == DogExample /\ ret[2] = "How to Train a Dog?"

----------------------------------------------------------------------------
(* Claims about the word count, checked under SpecWords.                   *)

\* C10: count_words is 0 for the empty string, and the count of a text is
\* the same with whitespace added at its ends and with the whitespace at its
\* ends removed.
C10_CountIgnoresPadding ==
    pc = "done" =>
        /\ arg.text = "" => ret.plain = 0
        /\ ret.padded = ret.plain
        /\ ret.stripped = ret.plain

\* C10 witness: a text of several words padded at both ends
C10_Witness ==
    /\ pc = "done"
    /\ arg.left # "" /\ arg.right # ""
    /\ ret.plain = 4
    /\ ret.padded = 4

----------------------------------------------------------------------------
(* The leading window on its own: get_first_n_words applied to a text and  *)
(* a word limit, applied again to its own result, and applied as           *)
(* analyze_url applies it (analyzer.py 330).                               *)

\* the largest of the small word limits
MaxFirstN == 5

\* texts of fewer words than the limits, of as many, and of more; the long
\* ones have one word less than, as many words as and one word more than the
\* leading window
FirstTexts ==
    Texts \cup {"one  two\tthree \n four five six seven ", "  a b c d e f",
                "The cat\r\nsat on\fthe mat"}
        \cup {Filler(k) : k \in (FirstWordsLimit - 1)..(FirstWordsLimit + 1)}

FirstLimits == (0..MaxFirstN) \cup {FirstWordsLimit}

FirstInit ==
    /\ pc = "start"
    /\ arg \in [text : FirstTexts, n : FirstLimits]
    /\ ret = None
    /\ loc = NoLocals
    /\ calls = <<>>
    /\ net = <<>>

\* get_first_n_words called on the text, on its own result, and with the
\* limit of analyze_url
FirstWords ==
    /\ pc = "start"
    /\ LET once == get_first_n_words(arg.text, arg.n)
       IN  ret' = [once |-> once,
                   twice |-> get_first_n_words(once, arg.n),
                   window |-> get_first_n_words(arg.text, FirstWordsLimit)]
    /\ pc' = "done"
    /\ UNCHANGED <<arg, loc, calls, net>>

FirstNext == FirstWords

SpecFirst == FirstInit /\ [][FirstNext]_vars

----------------------------------------------------------------------------
(* Claims about the leading window, checked under SpecFirst.               *)

\* every whitespace character of s is one space between two characters that
\* are no whitespace
SingleSpaced(s) ==
    \A i \in 1..Len(s) :
        IsSpace(Char(s, i)) =>
            /\ Char(s, i) = " "
            /\ 1 < i /\ i < Len(s)
            /\ ~IsSpace(Char(s, i - 1)) /\ ~IsSpace(Char(s, i + 1))

\* C11: for every text and every n >= 0, get_first_n_words(text, n) holds
\* the first min(n, count_words(text)) whitespace-delimited words of the
\* text, in order, with one space between two words and none at the ends;
\* applied to its own result with the same n it returns that result; and
\* with the limit of analyze_url the window has at most 500 words.
C11_FirstWordsPrefix ==
    pc = "done" =>
        LET words == split(arg.text)
            k == IF arg.n < Len(words) THEN arg.n ELSE Len(words)
        IN  /\ split(ret.once) = SubSeq(words, 1, k)
            /\ count_words(ret.once) = k
            /\ SingleSpaced(ret.once)
            /\ ret.twice = ret.once
            /\ count_words(ret.window) <= 500
            /\ split(ret.window) = SubSeq(words, 1, count_words(ret.window))

\* C11 witness: a text of 501 words cut to the 500 words of the window
C11_Witness ==
    /\ pc = "done"
    /\ arg.n = FirstWordsLimit
    /\ count_words(arg.text) = 501
    /\ count_words(ret.once) = 500
    /\ ret.twice = ret.once

----------------------------------------------------------------------------
(* Claims about the url of the analysis, checked under Spec.               *)

\* the characters of a scheme after its first letter
SchemeChars ==
    {Char(UpperCase, i) : i \in 1..26} \cup {Char(LowerCase, i) : i \in 1..26}
        \cup DigitChars \cup {"+", "-", "."}

\* the url starts with a scheme, in any letter case, followed by "://"
HasScheme(url) ==
    \E i \in 2..Len(url) :
        /\ startswith(SubSeq(url, i, Len(url)), "://")
        /\ Char(url, 1) \in SchemeChars \ (DigitChars \cup {"+", "-", "."})
        /\ \A k \in 1..(i - 1) : Char(url, k) \in SchemeChars

\* C12: analyze_url prefixes "https://" exactly when the input has no
\* scheme: an input with a scheme, whatever the scheme and its letter case,
\* is passed to the fetch collaborator and recorded unchanged, an input
\* without one is passed and recorded as "https://" followed by the input,
\* in success and in failure records.
C12_SchemePrefixedOnlyWhenMissing ==
    pc # "start" =>
        /\ loc.url = IF HasScheme(arg.url) THEN arg.url ELSE "https://" \o arg.url
        /\ pc = "done" => ret.url = loc.url

----------------------------------------------------------------------------
(* The url normalization on its own: normalize_url applied to two urls     *)
(* written from the same host and path, each with or without a scheme, a   *)
(* leading "www.", lower-casing and a trailing slash.                      *)

NormHosts == {"Example.com", "mywww.Example.org", "docs.example.com"}

NormPaths == {"", "/Page", "/a/B"}

\* the ways one url is written
UrlForms == [scheme : {"", "https://", "http://"}, www : BOOLEAN,
             lowered : BOOLEAN, slash : BOOLEAN]

\* the url of a host and a path written in a form
UrlOf(host, path, form) ==
    form.scheme \o (IF form.www THEN "www." ELSE "")
        \o (IF form.lowered THEN lower(host \o path) ELSE host \o path)
        \o (IF form.slash THEN "/" ELSE "")

NormInit ==
    /\ pc = "start"
    /\ arg \in [host : NormHosts, path : NormPaths, a : UrlForms, b : UrlForms]
    /\ ret = None
    /\ loc = NoLocals
    /\ calls = <<>>
    /\ net = <<>>

\* normalize_url called on both urls
NormalizeUrls ==
    /\ pc = "start"
    /\ ret' = [a |-> normalize_url(UrlOf(arg.host, arg.path, arg.a)),
               b |-> normalize_url(UrlOf(arg.host, arg.path, arg.b))]
    /\ pc' = "done"
    /\ UNCHANGED <<arg, loc, calls, net>>

NormNext == NormalizeUrls

SpecNorm == NormInit /\ [][NormNext]_vars

----------------------------------------------------------------------------
(* Claims about the url normalization, checked under SpecNorm.             *)

\* C13: normalize_url gives the same string for two urls that differ only
\* in the presence of a scheme, a leading "www." on the host, letter case
\* and a trailing slash; normalize_url("https://www.Example.com/Page/")
\* equals normalize_url("example.com/Page"); and only a "www." prefix of the
\* host is removed, never another part of the host.
C13_NormalizeIgnoresForm ==
    pc = "done" =>
        /\ ret.a = ret.b
        /\ normalize_url("https://www.Example.com/Page/") = normalize_url("example.com/Page")
        /\ ret.a = lower(arg.host \o arg.path)

----------------------------------------------------------------------------
(* The recommendation provider on its own: generate_recommendations with   *)
(* or without a credential, and what the provider does when it is called.  *)

RecKeys == {None, "", "sk-test"}

\* the most lines a completion of the recommendation provider holds
MaxRecLines == 4

RecLines ==
    {"1. Add a direct answer to the opening.", " - short ", "",
     Arrow \o " Use headings that state the question"}

\* every text of at most MaxRecLines lines, each one of RecLines
RecContents ==
    {join("\n", lines) : lines \in UNION {[1..n -> RecLines] : n \in 0..MaxRecLines}}

\* the body of a well-formed response: choices[0].message.content
CompletionBody(content) ==
    JDict([choices |-> JList(<<JDict([message |-> JDict([content |-> content])])>>)])

\* bodies that are JSON and not the expected shape
MalformedBodies ==
    {JNull, JStr("Service unavailable"), JList(<<>>),
     JDict(NoMembers),
     JDict([error |-> JDict([message |-> JStr("quota exceeded")])]),
     JDict([choices |-> JNull]),
     JDict([choices |-> JList(<<>>)]),
     JDict([choices |-> JDict(NoMembers)]),
     JDict([choices |-> JList(<<JNull>>)]),
     JDict([choices |-> JList(<<JDict(NoMembers)>>)]),
     JDict([choices |-> JList(<<JDict([message |-> JNull])>>)]),
     JDict([choices |-> JList(<<JDict([message |-> JDict(NoMembers)])>>)]),
     CompletionBody(JNull),
     CompletionBody(JNum(0))}

\* what requests.post, raise_for_status and response.json() do
\* (recommender.py 104-136); for a body that is no JSON, response.json()
\* raises requests' JSONDecodeError, which is a RequestException
RecOutcomes ==
    {[kind |-> "Timeout"]}
    \cup {[kind |-> "HTTPError", status_code |-> c] : c \in {401, 429, 500}}
    \cup {[kind |-> "RequestException", message |-> m] :
              m \in {"connection refused", "Expecting value: line 1 column 1 (char 0)"}}
    \cup {[kind |-> "data", data |-> d] : d \in MalformedBodies}
    \cup {[kind |-> "data", data |-> CompletionBody(JStr(c))] : c \in RecContents}

RecInit ==
    /\ pc = "start"
    /\ arg \in [api_key : RecKeys]
    /\ ret = None
    /\ loc = NoLocals
    /\ calls = <<>>
    /\ net = <<>>

\* recommender.py 50-55: without a credential the function returns at once
CheckApiKey ==
    /\ pc = "start"
    /\ IF HasApiKey(arg.api_key)
       THEN pc' = "request" /\ ret' = ret
       ELSE pc' = "done" /\ ret' = MissingKeyResult
    /\ UNCHANGED <<arg, loc, calls, net>>

\* recommender.py 104-175: the provider is called once and its answer, or
\* its failure, becomes the result
PostRecommendations(outcome) ==
    /\ pc = "request"
    /\ calls' = Append(calls, "requests.post")
    /\ net' = Append(net, outcome)
    /\ ret' = RequestRecommendations(outcome)
    /\ pc' = IF RequestRecommendations(outcome).raised THEN "raised" ELSE "done"
    /\ UNCHANGED <<arg, loc>>

RecNext ==
    \/ CheckApiKey
    \/ \E outcome \in RecOutcomes : PostRecommendations(outcome)

SpecRec == RecInit /\ [][RecNext]_vars

----------------------------------------------------------------------------
(* Claims about the recommendation provider, checked under SpecRec.        *)

\* C14: called without a credential (an empty api_key), the function
\* generate_recommendations returns at once with success false, no
\* recommendation and the error "OpenAI API key not provided", and makes no
\* outbound call.
C14_MissingKeyFailsAtOnce ==
    (pc # "start" /\ (arg.api_key = "" \/ arg.api_key = None)) =>
        /\ pc = "done"
        /\ ~ret.raised
        /\ ~ret.success
        /\ ret.recommendations = <<>>
        /\ ret.error = "OpenAI API key not provided"
        /\ calls = <<>>
        /\ net = <<>>

\* C14 witness: the call with the empty key has returned
C14_Witness ==
    /\ pc = "done"
    /\ arg.api_key = ""
    /\ ~ret.success
    /\ net = <<>>

\* the provider failed: a timeout, an HTTP error, a failed connection, or a
\* body that is no JSON or not of the expected shape
RecProviderFailed ==
    /\ Len(net) = 1
    /\ \/ net[1].kind \in {"Timeout", "HTTPError", "RequestException"}
       \/ net[1].kind = "data" /\ net[1].data \in MalformedBodies

\* C15: every failure of the provider (a timeout, an HTTP error, 401 and 429
\* included, a failed connection, a malformed or unparseable response of any
\* shape) is returned as a result with success false, an error message and
\* no recommendation, and is never raised; and in every result success true
\* goes with 1 to 3 recommendations and no error, success false with no
\* recommendation and an error.
C15_FailuresAreReturned ==
    pc \in {"done", "raised"} =>
        /\ ~ret.raised
        /\ RecProviderFailed =>
              /\ ~ret.success
              /\ ret.error # None /\ ret.error # ""
              /\ ret.recommendations = <<>>
        /\ ret.success => (Len(ret.recommendations) \in 1..3 /\ ret.error = None)
        /\ ~ret.success =>
              (ret.recommendations = <<>> /\ ret.error # None /\ ret.error # "")

----------------------------------------------------------------------------
(* The citation checker on its own: check_all_queries over a list of       *)
(* queries, one call of check_citation per step, and get_citation_summary  *)
(* over the list it returns.                                               *)

\* the most queries in a list
MaxQueries == 3

CiteQueries == <<"What is train a dog?", "How to Train a Dog?", "Why use train a dog?", "What is train a dog?">>

\* the lists of queries: the first n of CiteQueries
QueryLists == {SubSeq(CiteQueries, 1, n) : n \in 0..MaxQueries}
                 \cup {SubSeq(CiteQueries, 2, 2)}

TargetUrls == {"https://www.Example.com/Page/", "https://example.com"}

\* the body of a response with an answer and its citations
AnswerBody(content, citations) ==
    JDict([choices |-> JList(<<JDict([message |-> JDict([content |-> content])])>>),
           citations |-> citations])

\* the bodies of well-formed responses: the target among the citations, with
\* a short and with a long answer, or not among them
AnswerBodies ==
    {AnswerBody(JStr("Dogs learn by repetition."),
                JList(<<JStr("https://other.org/dogs"), JStr("http://example.com/page")>>)),
     AnswerBody(JStr("x" \o Filler(SnippetLimit \div 2)),
                JList(<<JStr("https://www.example.com/page/more")>>)),
     AnswerBody(JStr("Dogs learn by repetition."), JList(<<JStr("https://other.org/dogs")>>))}

\* bodies that are JSON and not the expected shape
MalformedAnswers ==
    {JNull, JList(<<>>), JDict(NoMembers),
     JDict([error |-> JStr("internal error")]),
     JDict([choices |-> JDict([message |-> JStr("example.com")]),
            citations |-> JList(<<JStr("https://example.com/page")>>)]),
     JDict([choices |-> JList(<<JStr("example.com")>>), citations |-> JNull]),
     AnswerBody(JNull, JList(<<JStr("https://example.com/page")>>)),
     AnswerBody(JStr("Dogs learn."), JList(<<JNum(1)>>)),
     AnswerBody(JStr("Dogs learn."), JStr("https://example.com/page"))}

\* what requests.post, raise_for_status and response.json() do
\* (perplexity_checker.py 70-108); for a body that is no JSON,
\* response.json() raises requests' JSONDecodeError, a RequestException
CitationOutcomes ==
    {[kind |-> "Timeout"]}
    \cup {[kind |-> "HTTPError", status_code |-> c] : c \in {401, 500}}
    \cup {[kind |-> "RequestException", message |-> "connection refused"]}
    \cup {[kind |-> "data", data |-> d] : d \in AnswerBodies \cup MalformedAnswers}

CiteInit ==
    /\ pc = "start"
    /\ arg \in [queries : QueryLists, target_url : TargetUrls]
    /\ ret = None
    /\ loc = [results |-> <<>>]
    /\ calls = <<>>
    /\ net = <<>>

\* perplexity_checker.py 160-162: one turn of the loop, the call of
\* check_citation for the next query; an exception that leaves it leaves
\* check_all_queries too
CheckCitation(outcome) ==
    /\ pc = "start"
    /\ Len(loc.results) < Len(arg.queries)
    /\ LET result == check_citation(arg.queries[Len(loc.results) + 1],
                                    arg.target_url, outcome)
       IN  IF result.raised
           THEN /\ ret' = result
                /\ pc' = "raised"
                /\ loc' = loc
           ELSE /\ loc' = [loc EXCEPT !.results = Append(loc.results, result)]
                /\ UNCHANGED <<pc, ret>>
    /\ calls' = Append(calls, "check_citation")
    /\ net' = Append(net, outcome)
    /\ UNCHANGED arg

\* perplexity_checker.py 163: the loop is over and the list is returned
ReturnResults ==
    /\ pc = "start"
    /\ Len(loc.results) = Len(arg.queries)
    /\ ret' = loc.results
    /\ pc' = "checked"
    /\ UNCHANGED <<arg, loc, calls, net>>

\* get_citation_summary called on the list check_all_queries returned
SummarizeCitations ==
    /\ pc = "checked"
    /\ ret' = get_citation_summary(loc.results)
    /\ pc' = "summarized"
    /\ UNCHANGED <<arg, loc, calls, net>>

CiteNext ==
    \/ \E outcome \in CitationOutcomes : CheckCitation(outcome)
    \/ ReturnResults
    \/ SummarizeCitations

SpecCite == CiteInit /\ [][CiteNext]_vars

----------------------------------------------------------------------------
(* Claims about the citation checker, checked under SpecCite.              *)

\* the i-th call of the provider failed: a timeout, an HTTP error, a failed
\* connection, or a body that is not of the expected shape
CitationCallFailed(i) ==
    \/ net[i].kind \in {"Timeout", "HTTPError", "RequestException"}
    \/ net[i].kind = "data" /\ net[i].data \in MalformedAnswers

\* C16: check_all_queries returns one CitationResult per query, in the order
\* of the queries, result i carrying query i; a failure of the provider call
\* for one query (a timeout, an HTTP error, a failed connection, a malformed
\* response) is recorded in that query's result as an error with cited
\* false, and neither stops nor alters the checks of the other queries.
C16_OneResultPerQuery ==
    /\ pc # "raised"
    /\ pc = "checked" =>
          /\ Len(ret) = Len(arg.queries)
          /\ Len(net) = Len(arg.queries)
          /\ \A i \in 1..Len(ret) :
                /\ ret[i].query = arg.queries[i]
                /\ ret[i] = check_citation(arg.queries[i], arg.target_url, net[i])
                /\ CitationCallFailed(i) =>
                      /\ ret[i].error # None /\ ret[i].error # ""
                      /\ ~ret[i].cited

\* the result carries an error
HasError(r) == r.error # None /\ r.error # ""

\* C19: for every list of results check_all_queries produces, the summary
\* partitions the queries: cited_count, not_cited_count and error_count are
\* the numbers of results that are cited, that have an error, and that are
\* neither; none is negative and they sum to total_queries, because no
\* result has both an error and cited true; and citation_rate is 0 for the
\* empty list.
C19_SummaryPartitionsQueries ==
    pc = "summarized" =>
        LET results == loc.results
            n == Len(results)
        IN  /\ \A i \in 1..n : ~(results[i].cited /\ HasError(results[i]))
            /\ ret.total_queries = Len(arg.queries)
            /\ ret.cited_count >= 0 /\ ret.not_cited_count >= 0 /\ ret.error_count >= 0
            /\ ret.cited_count + ret.not_cited_count + ret.error_count = ret.total_queries
            /\ ret.not_cited_count =
                   Cardinality({i \in 1..n : ~results[i].cited /\ ~HasError(results[i])})
            /\ n = 0 => ret.citation_rate.num = 0
            /\ n > 0 => ret.citation_rate.num = 100 * ret.cited_count
                           /\ ret.citation_rate.den = n

\* C19 witness: the summary of three results, one cited, one not cited and
\* one with an error
C19_Witness ==
    /\ pc = "summarized"
    /\ ret.total_queries = 3
    /\ ret.cited_count = 1
    /\ ret.not_cited_count = 1
    /\ ret.error_count = 1

----------------------------------------------------------------------------
(* The extractor on its own: extract_text_content applied to documents     *)
(* put together from sections of every kind the selection of the main      *)
(* content area tells apart.                                               *)

\* the most sections in a document
MaxSections == 2

SectionKinds ==
    {Section("main", "", "", <<Block("p", "Text of the main element, long enough.")>>),
     Section("article", "", "",
         <<Block("script", "var s = 'script text, long enough';"),
           Block("h2", " Text of the article element, long enough. ")>>),
     Section("div", "", "main", <<Block("li", "Text of the element with the main role.")>>),
     Section("div", "Blog-POST", "", <<Block("p", "Text of the div with a matching class.")>>),
     SectionWithId("div", "content", <<Block("p", "Text of the div with a matching id.")>>),
     Section("div", "sidebar", "", <<Block("p", "Text of a div that matches nothing."),
                                     Block("span", "short")>>),
     Section("section", "article-body", "",
         <<Block("h3", "Text of a section with a matching class.")>>),
     Section("nav", "content", "", <<Block("p", "Text of the navigation, long enough.")>>)}

\* the documents with a body and at most MaxSections sections, and two
\* without a body
ExtractDocs ==
    {Document("A Title", TRUE, sections) :
        sections \in UNION {[1..n -> SectionKinds] : n \in 0..MaxSections}}
    \cup {EmptyPage, TitleOnlyPage}

ExtractInit ==
    /\ pc = "start"
    /\ arg \in [html : ExtractDocs]
    /\ ret = None
    /\ loc = NoLocals
    /\ calls = <<>>
    /\ net = <<>>

\* one call of extract_text_content
ExtractContent ==
    /\ pc = "start"
    /\ ret' = extract_text_content(arg.html)
    /\ pc' = "done"
    /\ UNCHANGED <<arg, loc, calls, net>>

ExtractNext == ExtractContent

SpecExtract == ExtractInit /\ [][ExtractNext]_vars

----------------------------------------------------------------------------
(* Claims about the extractor, checked under SpecExtract.                  *)

\* the class or the id of the element contains, in any letter case,
\* "content", "article" or "post"
ClassOrIdMatches(sec) ==
    \E w \in {"content", "article", "post"} :
        contains(w, lower(sec.class)) \/ contains(w, lower(sec.id))

\* the first element of a document, already without its non-content
\* elements, that satisfies the first of the tests that some element
\* satisfies: a main element, an article element, the main role, a div
\* whose class or id matches; then the body, then the whole document
RootByPriority(doc) ==
    LET n == Len(doc.sections)
        mains == {i \in 1..n : doc.sections[i].tag = "main"}
        articles == {i \in 1..n : doc.sections[i].tag = "article"}
        roleMains == {i \in 1..n : doc.sections[i].role = "main"}
        containers == {i \in 1..n : doc.sections[i].tag = "div"
                                       /\ ClassOrIdMatches(doc.sections[i])}
        least(S) == CHOOSE i \in S : \A k \in S : i <= k
    IN  IF mains # {} THEN [kind |-> "section", index |-> least(mains)]
        ELSE IF articles # {} THEN [kind |-> "section", index |-> least(articles)]
        ELSE IF roleMains # {} THEN [kind |-> "section", index |-> least(roleMains)]
        ELSE IF containers # {} THEN [kind |-> "section", index |-> least(containers)]
        ELSE IF doc.body THEN [kind |-> "body", index |-> 0]
        ELSE [kind |-> "soup", index |-> 0]

\* the texts of the blocks of a sequence that are candidate paragraphs
CandidateTexts(blocks) ==
    LET isCandidate(b) == b.tag \in {"p", "h1", "h2", "h3", "li"} /\ Len(strip(b.text)) > 20
        candidates == SelectSeq(blocks, isCandidate)
    IN  [i \in 1..Len(candidates) |-> strip(candidates[i].text)]

\* C17: the main content root is the first that exists, once the
\* non-content elements are stripped, of: the main element, the article
\* element, the element with role "main", the first container whose class or
\* identifier contains "content", "article" or "post" in any letter case,
\* the body, the whole document; the candidate paragraphs and the full text
\* are those under that root and no others.
C17_RootByPriority ==
    pc = "done" =>
        LET soup == Decompose(arg.html)
            root == RootByPriority(soup)
        IN  /\ ret.paragraphs = CandidateTexts(BlocksUnder(soup, root))
            /\ ret.full_text = CollapseWhitespace(join(" ", StringsUnder(soup, root)))

----------------------------------------------------------------------------
(* Claims about the order of the steps of analyze_url, checked under Spec. *)

\* the steps every analysis takes after a fetch that succeeded, in order
StepsInOrder ==
    <<"fetch_page_content", "extract_text_content", "count_words",
      "get_first_n_words", "check_direct_answer", "smart_generate_queries">>

\* the ways the query synthesis ends: the provider alone, the rule-based
\* synthesizer alone, or the provider and then the synthesizer
SynthesisSteps ==
    {<<"generate_queries_with_llm">>, <<"generate_queries_rule_based">>,
     <<"generate_queries_with_llm", "generate_queries_rule_based">>}

\* s is the start of t
IsPrefix(s, t) == Len(s) <= Len(t) /\ SubSeq(t, 1, Len(s)) = s

\* the number of times a step was taken
TimesCalled(step) == Cardinality({i \in 1..Len(calls) : calls[i] = step})

\* C18: in one analysis the steps run in the order fetch, extract, metrics,
\* score, query synthesis and none is repeated: the fetch is performed
\* exactly once, the provider is called at most once and only after a fetch
\* that succeeded, and a failed outbound call is never retried: after a
\* failed fetch comes the failure record, after a failed provider call the
\* rule-based fallback.
C18_StepsInOrderOnce ==
    /\ \E last \in SynthesisSteps : IsPrefix(calls, StepsInOrder \o last)
    /\ pc # "start" => TimesCalled("fetch_page_content") = 1
    /\ Len(net) = TimesCalled("fetch_page_content")
                      + TimesCalled("generate_queries_with_llm")
    /\ TimesCalled("generate_queries_with_llm") <= 1
    /\ TimesCalled("generate_queries_with_llm") = 1 =>
          /\ net[1].kind = "ok"
          /\ arg.openai_api_key # None /\ arg.openai_api_key # ""
    /\ FetchFailed => (Len(net) = 1 /\ (pc = "done" => ~ret.extraction_success))
    /\ ProviderFailed =>
          /\ pc \in {"fallback", "assemble", "done"}
          /\ pc # "fallback" =>
                calls = StepsInOrder
                            \o <<"generate_queries_with_llm", "generate_queries_rule_based">>
    /\ (pc = "done" /\ ~FetchFailed) =>
          \E last \in SynthesisSteps : calls = StepsInOrder \o last

\* C18 witness: an analysis whose provider call timed out has ended with the
\* rule-based queries after one call of the provider
C18_Witness ==
    /\ pc = "done"
    /\ Len(net) = 2
    /\ net[2].kind = "Timeout"
    /\ calls = StepsInOrder \o <<"generate_queries_with_llm", "generate_queries_rule_based">>
    /\ ret.extraction_success

====
